---- MODULE Spec2Model ----
(***************************************************************************)
(* cadwyn/routing.py: generation of one route collection per API version.  *)
(*                                                                         *)
(* A VersionedAPIRouter holds the latest routes.  _EndpointTransformer     *)
(* walks the version bundle from the newest version to the oldest; for     *)
(* each version it rewrites the annotations of the working router to the   *)
(* version's schema directory, records the router as the version's         *)
(* snapshot, deep-copies it and applies the version's endpoint             *)
(* instructions (didn't exist / existed / had) to the copy.  At the end it *)
(* checks that every route marked "only exists in older versions" was      *)
(* restored, wraps the endpoints with the data migrations, strips the      *)
(* routes carrying the deleted tag and returns the mapping.                *)
(*                                                                         *)
(* Versions are numbered 1 (oldest) .. NumVersions (newest); the schema    *)
(* directory of version v is v and the template ("latest") directory is 0, *)
(* which keeps the order "latest" < "v2000_01_01" < "v2021_01_01" that     *)
(* __init__ relies on.                                                     *)
(***************************************************************************)
EXTENDS Integers, Sequences, FiniteSets, TLC

\* ---------------------------------------------------------------- bounds
NumVersions == 3        \* versions of the bundle
MaxRoutes == 2          \* routes registered on the latest router
MaxInstr == 3           \* endpoint instructions carried by the whole bundle
MaxRewrites == 3        \* calls of _change_version_of_annotations followed

\* ------------------------------------------------------- value domains
Paths == {"/a", "/b"}
MethodSets == {{"GET"}, {"POST"}, {"GET", "POST"}}
Names == {"f", "g"}                     \* the __name__ of the handlers
\* The handler functions: "other.f" is a second function whose __name__ is "f".
Functions == {"f", "g", "other.f"}
func_name(endpoint) == IF endpoint = "other.f" THEN "f" ELSE endpoint
StatusCodes == {200, 204}
NoName == "None"                        \* endpoint_func_name=None
DELETED_ROUTE_TAG == "_CADWYN_DELETED_ROUTE"
Versions == 1..NumVersions

\* ------------------------------------------------------------ annotations
\* A schema type is known by its name and by where its source file lies:
\* place "versioned" with dir 0 (template) or dir v (directory of version v),
\* "beside" (in the directory holding the version directories, inside none of
\* them) or "outside" (anywhere else).
SchemaType(place, dir) == [name |-> "UserResource", place |-> place, dir |-> dir]
LatestType == SchemaType("versioned", 0)
MisplacedType == SchemaType("versioned", 1)

\* _AnnotationTransformer.__init__: version_dirs, template_version_dir (min)
\* and latest_version_dir (max).
version_dirs == {0} \cup Versions
SetMin(S) == CHOOSE x \in S : \A y \in S : x <= y
SetMax(S) == CHOOSE x \in S : \A y \in S : x >= y
template_version_dir == SetMin(version_dirs)
latest_version_dir == SetMax(version_dirs)

\* source_file.startswith(dir_with_versions): the file lies in the tree that
\* holds the template and the version directories.
InDirWithVersions(t) == t.place \in {"versioned", "beside"}
\* source_file.startswith(str(d))
InDir(t, d) == t.place = "versioned" /\ t.dir = d

\* _validate_source_file_is_located_in_template_dir: TRUE when it raises.
ValidateRaises(t) ==
    /\ InDirWithVersions(t)
    /\ ~InDir(t, template_version_dir)
    /\ \E d \in version_dirs : InDir(t, d)

\* get_another_version_of_cls: the type of the same name in new_version_dir;
\* a type whose module lies in no version directory is returned as it is
\* (ModuleIsNotVersionedError).
get_another_version_of_cls(t, new_version_dir) ==
    IF \E d \in version_dirs : InDir(t, d)
    THEN [t EXCEPT !.dir = new_version_dir]
    ELSE t

\* _change_version_of_type for a schema model or enum: [ann, raised].
change_version_of_type(t, version_dir) ==
    IF version_dir = latest_version_dir /\ ValidateRaises(t)
    THEN [ann |-> t, raised |-> TRUE]
    ELSE [ann |-> get_another_version_of_cls(t, version_dir), raised |-> FALSE]

\* ------------------------------------------------------------------ routes
\* fastapi's APIRoute, as far as routing.py reads or writes it.  endpoint is
\* the handler function; versioned says whether route.endpoint is wrapped by
\* versions._versioned.
Route(path, methods, endpoint, model) ==
    [path |-> path, methods |-> methods, endpoint |-> endpoint, tags |-> <<>>,
     status_code |-> 200, response_model |-> model, versioned |-> FALSE]

RouteShapes ==
    { Route("/a", {"GET"}, "f", LatestType),
      Route("/a", {"GET"}, "g", LatestType),
      Route("/a", {"POST"}, "f", LatestType),
      Route("/a", {"GET", "POST"}, "other.f", LatestType),
      Route("/b", {"GET"}, "f", LatestType),
      Route("/b", {"POST"}, "g", MisplacedType) }

Routers == UNION { [1..n -> RouteShapes] : n \in 1..MaxRoutes }

InSeq(x, s) == \E i \in 1..Len(s) : s[i] = x
IsDeleted(route) == InSeq(DELETED_ROUTE_TAG, route.tags)

\* list.remove(x): drops the first occurrence of x.
RECURSIVE ListRemove(_, _)
ListRemove(s, x) ==
    IF s = <<>> THEN <<>>
    ELSE IF Head(s) = x THEN Tail(s)
    ELSE <<Head(s)>> \o ListRemove(Tail(s), x)

Indices(s) == [i \in 1..Len(s) |-> i]

\* _get_routes matching a route that shares a method with the query, where the
\* code asks for all the route's methods to be among the query's.
get_routes_AnySharedMethod(routes, endpoint_path, endpoint_methods, endpoint_func_name, is_deleted) ==
    SelectSeq(Indices(routes),
              LAMBDA i :
                  /\ routes[i].path = endpoint_path
                  /\ routes[i].methods \cap endpoint_methods # {}
                  /\ (endpoint_func_name = NoName
                      \/ func_name(routes[i].endpoint) = endpoint_func_name)
                  /\ IsDeleted(routes[i]) = is_deleted)

\* _get_routes with the test of line 643 left out: the handler name is not
\* looked at.
get_routes_IgnoresFuncName(routes, endpoint_path, endpoint_methods, endpoint_func_name, is_deleted) ==
    SelectSeq(Indices(routes),
              LAMBDA i :
                  /\ routes[i].path = endpoint_path
                  /\ routes[i].methods \subseteq endpoint_methods
                  /\ IsDeleted(routes[i]) = is_deleted)

\* _get_routes: the positions, in collection order, of the matching routes.
get_routes(routes, endpoint_path, endpoint_methods, endpoint_func_name, is_deleted) ==
    SelectSeq(Indices(routes),
              LAMBDA i :
                  /\ routes[i].path = endpoint_path
                  /\ routes[i].methods \subseteq endpoint_methods
                  /\ (endpoint_func_name = NoName
                      \/ func_name(routes[i].endpoint) = endpoint_func_name)
                  /\ IsDeleted(routes[i]) = is_deleted)

\* _get_route_from_func: position of the first route of the endpoint, 0 = None.
get_route_from_func(routes, endpoint) ==
    IF \E i \in 1..Len(routes) : routes[i].endpoint = endpoint
    THEN CHOOSE i \in 1..Len(routes) :
            /\ routes[i].endpoint = endpoint
            /\ \A j \in 1..(i - 1) : routes[j].endpoint # endpoint
    ELSE 0

RECURSIVE MethodUnion(_, _)
MethodUnion(routes, idx) ==
    IF idx = <<>> THEN {} ELSE routes[Head(idx)].methods \cup MethodUnion(routes, Tail(idx))

EndpointNames(routes, idx) == [k \in 1..Len(idx) |-> func_name(routes[idx[k]].endpoint)]

\* ------------------------------------------------------------ instructions
NoAttributes == <<>>
Attributes == {NoAttributes} \cup { [a \in {"status_code"} |-> c] : c \in StatusCodes }
AttrNames == <<"status_code">>           \* __dataclass_fields__, in order

Instructions ==
    { [kind |-> k, endpoint_path |-> p, endpoint_methods |-> m,
       endpoint_func_name |-> n, attributes |-> a] :
        k \in {"didnt_exist", "existed", "had"}, p \in Paths, m \in MethodSets,
        n \in {NoName} \cup Names, a \in Attributes }

WellFormed(i) == i.kind = "had" \/ i.attributes = NoAttributes

\* ------------------------------------------------------------------ errors
NoError == [kind |-> "none", methods |-> {}, path |-> "", version_change |-> 0,
            names |-> <<>>, routes |-> <<>>, attr |-> ""]
Error(kind, methods, path, vc, names) ==
    [kind |-> kind, methods |-> methods, path |-> path, version_change |-> vc,
     names |-> names, routes |-> <<>>, attr |-> ""]

\* HadAttributes with the test of line 585 left out: an attribute the
\* instruction leaves at Sentinel is written to the route like any other.
HadAttributes_WritesUnset(vc, instruction, route, fields) ==
    [route |-> [a \in DOMAIN route |->
                    IF InSeq(a, fields)
                    THEN IF a \in DOMAIN instruction.attributes
                         THEN instruction.attributes[a] ELSE 0
                    ELSE route[a]],
     err |-> NoError]

\* ------------------------------------------- _apply_endpoint_had_instruction
\* Walks the attribute fields in order; an attribute left at Sentinel is not in
\* DOMAIN instruction.attributes.  [route, err].
RECURSIVE HadAttributes(_, _, _, _)
HadAttributes(vc, instruction, route, fields) ==
    IF fields = <<>> THEN [route |-> route, err |-> NoError]
    ELSE LET attr_name == Head(fields) IN
         IF attr_name \in DOMAIN instruction.attributes
         THEN IF route[attr_name] = instruction.attributes[attr_name]
              THEN [route |-> route,
                    err |-> [Error("attribute_unchanged", route.methods, route.path, vc, <<>>)
                                EXCEPT !.attr = attr_name]]
              ELSE HadAttributes(vc, instruction,
                                 [route EXCEPT ![attr_name] = instruction.attributes[attr_name]],
                                 Tail(fields))
         ELSE HadAttributes(vc, instruction, route, Tail(fields))

\* apply_endpoint_had_instruction with the check of lines 586-593 left out.
apply_endpoint_had_instruction_Overwrites(vc, instruction, route) ==
    [route |-> [a \in DOMAIN route |->
                    IF a \in DOMAIN instruction.attributes
                    THEN instruction.attributes[a] ELSE route[a]],
     err |-> NoError]

apply_endpoint_had_instruction(vc, instruction, route) ==
    HadAttributes(vc, instruction, route, AttrNames)

\* --------------------------------------- _apply_endpoint_changes_to_router
\* Each branch returns [routes, never, applied, err]: the router's routes, the
\* list routes_that_never_existed (positions in the latest router), the
\* methods_to_which_we_applied_changes and the error raised inside the branch.
Outcome(routes, never, applied, err) ==
    [routes |-> routes, never |-> never, applied |-> applied, err |-> err]

\* DidntExistBranch with line 244 left out: no route is tagged.
DidntExistBranch_MarksNothing(routes, never, instruction, vc) ==
    LET original_routes == get_routes(routes, instruction.endpoint_path,
                               instruction.endpoint_methods,
                               instruction.endpoint_func_name, FALSE)
        deleted_routes == get_routes(routes, instruction.endpoint_path,
                               instruction.endpoint_methods,
                               instruction.endpoint_func_name, TRUE)
    IN IF deleted_routes # <<>>
       THEN Outcome(routes, never, {},
                    Error("already_deleted", MethodUnion(routes, deleted_routes),
                          instruction.endpoint_path, vc,
                          EndpointNames(routes, deleted_routes)))
       ELSE Outcome(routes, never, MethodUnion(routes, original_routes), NoError)

\* DidntExistBranch with the check of lines 231-241 left out.
DidntExistBranch_NoDeletedCheck(routes, never, instruction, vc) ==
    LET original_routes == get_routes(routes, instruction.endpoint_path,
                               instruction.endpoint_methods,
                               instruction.endpoint_func_name, FALSE)
    IN Outcome([i \in DOMAIN routes |->
                    IF InSeq(i, original_routes)
                    THEN [routes[i] EXCEPT !.tags = Append(@, DELETED_ROUTE_TAG)]
                    ELSE routes[i]],
               never, MethodUnion(routes, original_routes), NoError)

\* DidntExistBranch taking the routes out of the router instead of tagging them.
DidntExistBranch_RemovesRoutes(routes, never, instruction, vc) ==
    LET original_routes == get_routes(routes, instruction.endpoint_path,
                               instruction.endpoint_methods,
                               instruction.endpoint_func_name, FALSE)
    IN Outcome(SelectSeq(routes, LAMBDA route :
                            \A k \in 1..Len(original_routes) :
                                routes[original_routes[k]] # route),
               never, MethodUnion(routes, original_routes), NoError)

\* DidntExistBranch tagging every route of the path, methods and handler name,
\* the ones already deleted too.
DidntExistBranch_TagsDeletedToo(routes, never, instruction, vc) ==
    LET original_routes == get_routes(routes, instruction.endpoint_path,
                               instruction.endpoint_methods,
                               instruction.endpoint_func_name, FALSE)
        deleted_routes == get_routes(routes, instruction.endpoint_path,
                               instruction.endpoint_methods,
                               instruction.endpoint_func_name, TRUE)
    IN Outcome([i \in DOMAIN routes |->
                    IF InSeq(i, original_routes) \/ InSeq(i, deleted_routes)
                    THEN [routes[i] EXCEPT !.tags = Append(@, DELETED_ROUTE_TAG)]
                    ELSE routes[i]],
               never,
               MethodUnion(routes, original_routes) \cup MethodUnion(routes, deleted_routes),
               NoError)

\* isinstance(instruction, EndpointDidntExistInstruction), lines 222-248
DidntExistBranch(routes, never, instruction, vc) ==
    LET original_routes == get_routes(routes, instruction.endpoint_path,
                               instruction.endpoint_methods,
                               instruction.endpoint_func_name, FALSE)
        deleted_routes == get_routes(routes, instruction.endpoint_path,
                               instruction.endpoint_methods,
                               instruction.endpoint_func_name, TRUE)
    IN IF deleted_routes # <<>>
       THEN Outcome(routes, never, {},
                    Error("already_deleted", MethodUnion(routes, deleted_routes),
                          instruction.endpoint_path, vc,
                          EndpointNames(routes, deleted_routes)))
       ELSE Outcome([i \in DOMAIN routes |->
                        IF InSeq(i, original_routes)
                        THEN [routes[i] EXCEPT !.tags = Append(@, DELETED_ROUTE_TAG)]
                        ELSE routes[i]],
                    never, MethodUnion(routes, original_routes), NoError)

\* _validate_no_repetitions_in_routes: <<>> when it passes, else the two routes
\* of RouteAlreadyExistsError (the repeated one, then the one seen before).
RECURSIVE Repetition(_, _, _)
Repetition(routes, todo, seen) ==
    IF todo = <<>> THEN <<>>
    ELSE LET r == routes[Head(todo)]
             same == SelectSeq(seen, LAMBDA j : routes[j].path = r.path
                                                /\ routes[j].methods = r.methods)
         IN IF same # <<>>
            \* route_map keeps the last route stored under the key
            THEN <<Head(todo), same[Len(same)]>>
            ELSE Repetition(routes, Tail(todo), Append(seen, Head(todo)))

validate_no_repetitions_in_routes(routes, idx) == Repetition(routes, idx, <<>>)

RemoveAt(s, k) == [i \in 1..(Len(s) - 1) |-> IF i < k THEN s[i] ELSE s[i + 1]]

\* for deleted_route in deleted_routes, lines 279-304
RECURSIVE RestoreLoop(_, _, _, _, _, _)
RestoreLoop(latest, routes, never, todo, applied, vc) ==
    IF todo = <<>> THEN Outcome(routes, never, applied, NoError)
    ELSE LET k == Head(todo)
             deleted_route == routes[k]
             restored == [routes EXCEPT ![k].tags = ListRemove(@, DELETED_ROUTE_TAG)]
             never_routes == [j \in 1..Len(never) |-> latest[never[j]]]
             routes_that_never_existed ==
                 get_routes(never_routes, deleted_route.path, deleted_route.methods,
                            func_name(deleted_route.endpoint), TRUE)
         IN IF Len(routes_that_never_existed) = 1
            THEN RestoreLoop(latest, restored,
                             RemoveAt(never, routes_that_never_existed[1]),
                             Tail(todo), applied \cup deleted_route.methods, vc)
            ELSE IF Len(routes_that_never_existed) > 1
            THEN Outcome(restored, never, applied \cup deleted_route.methods,
                         Error("never_existed_ambiguous", deleted_route.methods,
                               deleted_route.path, vc,
                               EndpointNames(never_routes, routes_that_never_existed)))
            ELSE RestoreLoop(latest, restored, never, Tail(todo),
                             applied \cup deleted_route.methods, vc)

\* ExistedBranch with _validate_no_repetitions_in_routes (lines 269-278) left out.
ExistedBranch_NoRepetitionCheck(latest, routes, never, instruction, vc) ==
    LET original_routes == get_routes(routes, instruction.endpoint_path,
                               instruction.endpoint_methods,
                               instruction.endpoint_func_name, FALSE)
        deleted_routes == get_routes(routes, instruction.endpoint_path,
                               instruction.endpoint_methods,
                               instruction.endpoint_func_name, TRUE)
    IN IF original_routes # <<>>
       THEN Outcome(routes, never, {},
                    Error("already_existed", MethodUnion(routes, original_routes),
                          instruction.endpoint_path, vc,
                          EndpointNames(routes, original_routes)))
       ELSE RestoreLoop(latest, routes, never, deleted_routes, {}, vc)

\* ExistedBranch with the check of lines 251-261 left out.
ExistedBranch_NoActiveCheck(latest, routes, never, instruction, vc) ==
    LET deleted_routes == get_routes(routes, instruction.endpoint_path,
                               instruction.endpoint_methods,
                               instruction.endpoint_func_name, TRUE)
        repeated == validate_no_repetitions_in_routes(routes, deleted_routes)
    IN IF repeated # <<>>
       THEN Outcome(routes, never, {},
                    Error("ambiguous_restore", instruction.endpoint_methods,
                          instruction.endpoint_path, vc,
                          EndpointNames(routes, repeated)))
       ELSE RestoreLoop(latest, routes, never, deleted_routes, {}, vc)

\* isinstance(instruction, EndpointExistedInstruction), lines 249-308
ExistedBranch(latest, routes, never, instruction, vc) ==
    LET original_routes == get_routes(routes, instruction.endpoint_path,
                               instruction.endpoint_methods,
                               instruction.endpoint_func_name, FALSE)
        deleted_routes == get_routes(routes, instruction.endpoint_path,
                               instruction.endpoint_methods,
                               instruction.endpoint_func_name, TRUE)
        repeated == validate_no_repetitions_in_routes(routes, deleted_routes)
    IN IF original_routes # <<>>
       THEN Outcome(routes, never, {},
                    Error("already_existed", MethodUnion(routes, original_routes),
                          instruction.endpoint_path, vc,
                          EndpointNames(routes, original_routes)))
       ELSE IF repeated # <<>>
       THEN Outcome(routes, never, {},
                    Error("ambiguous_restore", instruction.endpoint_methods,
                          instruction.endpoint_path, vc,
                          EndpointNames(routes, repeated)))
       ELSE RestoreLoop(latest, routes, never, deleted_routes, {}, vc)

\* isinstance(instruction, EndpointHadInstruction), lines 309-316
RECURSIVE HadLoop(_, _, _, _, _, _)
HadLoop(routes, never, todo, applied, instruction, vc) ==
    IF todo = <<>> THEN Outcome(routes, never, applied, NoError)
    ELSE LET k == Head(todo)
             had == apply_endpoint_had_instruction(vc, instruction, routes[k])
         IN IF had.err # NoError
            THEN Outcome(routes, never, applied \cup routes[k].methods, had.err)
            ELSE HadLoop([routes EXCEPT ![k] = had.route], never, Tail(todo),
                         applied \cup routes[k].methods, instruction, vc)

\* HadBranch acting on the deleted routes as well as on the active ones.
HadBranch_AnyMarker(routes, never, instruction, vc) ==
    HadLoop(routes, never,
            SelectSeq(Indices(routes),
                      LAMBDA i :
                          /\ routes[i].path = instruction.endpoint_path
                          /\ routes[i].methods \subseteq instruction.endpoint_methods
                          /\ (instruction.endpoint_func_name = NoName
                              \/ func_name(routes[i].endpoint) =
                                    instruction.endpoint_func_name)),
            {}, instruction, vc)

HadBranch(routes, never, instruction, vc) ==
    HadLoop(routes, never,
            get_routes(routes, instruction.endpoint_path, instruction.endpoint_methods,
                       instruction.endpoint_func_name, FALSE),
            {}, instruction, vc)

UnmatchedKind(instruction) ==
    CASE instruction.kind = "didnt_exist" -> "delete_unmatched"
      [] instruction.kind = "existed" -> "restore_unmatched"
      [] instruction.kind = "had" -> "change_unmatched"

\* apply_instruction with the check of lines 319-327 left out.
apply_instruction_NoMethodDiff(latest, routes, never, instruction, vc) ==
    CASE instruction.kind = "didnt_exist" ->
            DidntExistBranch(routes, never, instruction, vc)
      [] instruction.kind = "existed" ->
            ExistedBranch(latest, routes, never, instruction, vc)
      [] instruction.kind = "had" ->
            HadBranch(routes, never, instruction, vc)

\* One round of the inner loop of _apply_endpoint_changes_to_router (lines
\* 211-327): the branch of the instruction's kind, then the method_diff check.
apply_instruction(latest, routes, never, instruction, vc) ==
    LET out == CASE instruction.kind = "didnt_exist" ->
                        DidntExistBranch(routes, never, instruction, vc)
                 [] instruction.kind = "existed" ->
                        ExistedBranch(latest, routes, never, instruction, vc)
                 [] instruction.kind = "had" ->
                        HadBranch(routes, never, instruction, vc)
        method_diff == instruction.endpoint_methods \ out.applied
    IN IF out.err # NoError THEN out
       ELSE IF method_diff # {}
       THEN [out EXCEPT !.err = Error(UnmatchedKind(instruction), method_diff,
                                      instruction.endpoint_path, vc, <<>>)]
       ELSE out

\* ------------------------------------------------ annotation transformer
\* migrate_route_to_version on every route, in order: the first route whose
\* response model fails the template-directory check raises.
RECURSIVE MigrateRoutes(_, _, _)
MigrateRoutes(routes, k, version_dir) ==
    IF k > Len(routes) THEN [routes |-> routes, err |-> NoError]
    ELSE LET changed == change_version_of_type(routes[k].response_model, version_dir)
         IN IF changed.raised
            THEN [routes |-> routes,
                  err |-> Error("not_in_template_dir", routes[k].methods,
                                routes[k].path, version_dir, <<routes[k].endpoint>>)]
            ELSE MigrateRoutes([routes EXCEPT ![k].response_model = changed.ann],
                               k + 1, version_dir)

\* migrate_router_to_version with the check of lines 380-383 left out.
migrate_router_to_version_SkipsDirCheck(routes, version, is_dir) ==
    MigrateRoutes(routes, 1, version)

\* migrate_router_to_version; is_dir is what version_dir.is_dir() answers.
migrate_router_to_version(routes, version, is_dir) ==
    IF ~is_dir
    THEN [routes |-> routes, err |-> Error("missing_directory", {}, "", version, <<>>)]
    ELSE MigrateRoutes(routes, 1, version)

\* ------------------------------------------- rewriting of any annotation
\* An annotation, as far as _change_version_of_annotations tells annotations
\* apart.  kind is "type" (a schema model or enum, cls says which), "plain"
\* (typing.Any, a NewType, a type that is no model nor enum), "callable" (a
\* function object: id is its identity, wrapped the identity of the function
\* it wraps, 0 for a function the user wrote, parts its __annotations__),
\* "generic" (list[...], parts its args), "union" (X | Y), "Union"
\* (typing.Union[...]), "depends" (Depends(...), parts its dependency) or
\* "list" (a list container, parts its items).
NoCls == [name |-> "", place |-> "", dir |-> 0]
Annotation(kind, cls, id, parts) ==
    [kind |-> kind, cls |-> cls, id |-> id, wrapped |-> 0, parts |-> parts]
TypeAnnotation(t) == Annotation("type", t, 0, <<>>)
PlainAnnotation == Annotation("plain", NoCls, 0, <<>>)
Handler == Annotation("callable", NoCls, 1, <<TypeAnnotation(LatestType)>>)

\* The annotations a router is written with.
UserAnnotations ==
    { TypeAnnotation(LatestType),
      TypeAnnotation(MisplacedType),
      TypeAnnotation(SchemaType("beside", 0)),
      TypeAnnotation(SchemaType("outside", 0)),
      PlainAnnotation,
      Handler,
      Annotation("generic", NoCls, 0, <<TypeAnnotation(LatestType)>>),
      Annotation("union", NoCls, 0, <<TypeAnnotation(LatestType), PlainAnnotation>>),
      Annotation("depends", NoCls, 0, <<Handler>>),
      Annotation("list", NoCls, 0, <<TypeAnnotation(LatestType), Handler>>) }

\* The rewriting functions return [ann, raised, cache, objects]: the rewritten
\* annotation, whether RouterGenerationError was raised, the functools.cache
\* of change_versions_of_a_non_container_annotation and the number of function
\* objects that exist.
Rewritten(ann, raised, c, n) == [ann |-> ann, raised |-> raised, cache |-> c, objects |-> n]

RECURSIVE change_version_of_annotations(_, _, _, _)
RECURSIVE change_versions_of_a_non_container_annotation(_, _, _, _)
RECURSIVE ChangeEach(_, _, _, _, _)

\* tuple(self._change_version_of_annotations(arg, version_dir) for arg in args):
\* the items from left to right, done collects the rewritten ones.
ChangeEach(todo, done, version_dir, c, n) ==
    IF todo = <<>> THEN Rewritten(done, FALSE, c, n)
    ELSE LET r == change_version_of_annotations(Head(todo), version_dir, c, n)
         IN IF r.raised THEN Rewritten(done, TRUE, r.cache, r.objects)
            ELSE ChangeEach(Tail(todo), Append(done, r.ann), version_dir,
                            r.cache, r.objects)

\* _change_versions_of_a_non_container_annotation, lines 415-472
change_versions_of_a_non_container_annotation(annotation, version_dir, c, n) ==
    CASE annotation.kind \in {"generic", "Union", "depends"} ->
            LET r == ChangeEach(annotation.parts, <<>>, version_dir, c, n)
            IN Rewritten([annotation EXCEPT !.parts = r.ann], r.raised, r.cache, r.objects)
      [] annotation.kind = "union" ->
            LET r == ChangeEach(annotation.parts, <<>>, version_dir, c, n)
            IN Rewritten([annotation EXCEPT !.kind = "Union", !.parts = r.ann],
                         r.raised, r.cache, r.objects)
      [] annotation.kind = "plain" -> Rewritten(annotation, FALSE, c, n)
      [] annotation.kind = "type" ->
            LET changed == change_version_of_type(annotation.cls, version_dir)
            IN Rewritten([annotation EXCEPT !.cls = changed.ann], changed.raised, c, n)
      [] annotation.kind = "callable" ->
            \* new_callable is a new function object wrapping annotation
            LET r == ChangeEach(annotation.parts, <<>>, version_dir, c, n + 1)
            IN Rewritten([annotation EXCEPT !.id = n + 1, !.wrapped = annotation.id,
                                            !.parts = r.ann],
                         r.raised, r.cache, r.objects)

\* _change_version_of_annotations with the functools.cache of line 374 left out.
change_version_of_annotations_NoCache(annotation, version_dir, c, n) ==
    IF annotation.kind = "list"
    THEN LET r == ChangeEach(annotation.parts, <<>>, version_dir, c, n)
         IN Rewritten([annotation EXCEPT !.parts = r.ann], r.raised, r.cache, r.objects)
    ELSE change_versions_of_a_non_container_annotation(annotation, version_dir, c, n)

\* _change_version_of_annotations, lines 474-494; the last branch goes through
\* the cache set up at lines 371-376, which keeps what a call returned.
change_version_of_annotations(annotation, version_dir, c, n) ==
    IF annotation.kind = "list"
    THEN LET r == ChangeEach(annotation.parts, <<>>, version_dir, c, n)
         IN Rewritten([annotation EXCEPT !.parts = r.ann], r.raised, r.cache, r.objects)
    ELSE IF <<annotation, version_dir>> \in DOMAIN c
    THEN Rewritten(c[<<annotation, version_dir>>], FALSE, c, n)
    ELSE LET r == change_versions_of_a_non_container_annotation(annotation, version_dir, c, n)
         IN IF r.raised THEN r
            ELSE [r EXCEPT !.cache = (<<annotation, version_dir>> :> r.ann) @@ r.cache]

\* ---------------------------------------------------------- marker method
\* only_exists_in_older_versions with the check of lines 92-93 left out.
only_exists_in_older_versions_MarksAgain(routes, endpoint) ==
    LET k == get_route_from_func(routes, endpoint)
    IN IF k = 0 THEN [routes |-> routes, raised |-> "LookupError"]
       ELSE [routes |-> [routes EXCEPT ![k].tags = Append(@, DELETED_ROUTE_TAG)],
             raised |-> ""]

\* VersionedAPIRouter.only_exists_in_older_versions: [routes, raised].
only_exists_in_older_versions(routes, endpoint) ==
    LET k == get_route_from_func(routes, endpoint)
    IN IF k = 0 THEN [routes |-> routes, raised |-> "LookupError"]
       ELSE IF IsDeleted(routes[k]) THEN [routes |-> routes, raised |-> "CadwynError"]
       ELSE [routes |-> [routes EXCEPT ![k].tags = Append(@, DELETED_ROUTE_TAG)],
             raised |-> ""]

\* __init__ collecting no route.
routes_that_never_existed_Forgets(routes) == <<>>

\* _EndpointTransformer.__init__, lines 110-112
routes_that_never_existed(routes) ==
    SelectSeq(Indices(routes), LAMBDA i : IsDeleted(routes[i]))

\* ------------------------------------------------------ the end of transform
\* FirstNotAsync passing over the routes marked as existing only in older
\* versions.
FirstNotAsync_SkipsMarked(latest, sync) ==
    IF \E i \in 1..Len(latest) : latest[i].endpoint \in sync /\ ~IsDeleted(latest[i])
    THEN CHOOSE i \in 1..Len(latest) :
            /\ latest[i].endpoint \in sync /\ ~IsDeleted(latest[i])
            /\ \A j \in 1..(i - 1) : ~(latest[j].endpoint \in sync /\ ~IsDeleted(latest[j]))
    ELSE 0

\* Lines 147-194: _add_data_migrations_to_route on the route of every latest
\* route in every snapshot.  sync is the set of handlers that
\* is_async_callable rejects.  0 when every endpoint is wrapped, else the
\* position of the first route whose endpoint is refused.
FirstNotAsync(latest, sync) ==
    IF \E i \in 1..Len(latest) : latest[i].endpoint \in sync
    THEN CHOOSE i \in 1..Len(latest) :
            /\ latest[i].endpoint \in sync
            /\ \A j \in 1..(i - 1) : latest[j].endpoint \notin sync
    ELSE 0

add_data_migrations(infos) ==
    [v \in DOMAIN infos |-> [k \in DOMAIN infos[v] |-> [infos[v][k] EXCEPT !.versioned = TRUE]]]

\* Stripping that drops nothing.
strip_deleted_KeepsAll(infos) == infos

\* Stripping that keeps the right routes in the opposite order.
RECURSIVE Reverse(_)
Reverse(s) == IF s = <<>> THEN <<>> ELSE Append(Reverse(Tail(s)), Head(s))
strip_deleted_Reversed(infos) ==
    [v \in DOMAIN infos |-> Reverse(SelectSeq(infos[v], LAMBDA route : ~IsDeleted(route)))]

\* Lines 195-201: the routes carrying the deleted tag are dropped.
strip_deleted(infos) ==
    [v \in DOMAIN infos |-> SelectSeq(infos[v], LAMBDA route : ~IsDeleted(route))]

\* ------------------------------------------------------------------- state
VARIABLES
    pc,              \* "author", "loop", "done", "failed"
    latest,          \* parent_router.routes
    never,           \* self.routes_that_never_existed (positions in latest)
    version,         \* the version of the current round of the loop of transform
    router,          \* router.routes: the working snapshot
    router_infos,    \* router_infos: version -> routes of its router
    applied,         \* version -> what each instruction applied for it changed
    before_deletion, \* route -> the route as it was when an instruction deleted it
    dirs,            \* version -> what is_dir() answered for its directory
    sync,            \* the handlers is_async_callable refused
    result,          \* the mapping transform returned
    raised,          \* the exception that ended the program, "" if none
    err,             \* what the raised RouterGenerationError reports
    cache,           \* change_versions_of_a_non_container_annotation's cache
    objects,         \* how many function objects exist
    rewrites,        \* the calls of _change_version_of_annotations followed
    call             \* one call of a wrapped endpoint, see Versioned

genvars == <<pc, latest, never, version, router, router_infos, applied,
             before_deletion, dirs, sync, result, raised, err>>
annvars == <<cache, objects, rewrites>>
vars == <<genvars, annvars, call>>

\* No wrapped endpoint is being called.
NoCall == [stage |-> "none", api_version |-> 0, request_migrations |-> {},
           response_migrations |-> {}, cursor |-> 0, trace |-> <<>>]

NoResult == <<>>
NothingApplied == [v \in Versions |-> <<>>]

RECURSIVE SumLen(_, _)
SumLen(b, v) == IF v = 0 THEN 0 ELSE Len(b[v]) + SumLen(b, v - 1)
InstrCount == SumLen(applied, NumVersions)

\* The routes an instruction acts on: the deleted ones for "existed", the
\* active ones for the other two kinds.
Targets(routes, instruction) ==
    get_routes(routes, instruction.endpoint_path, instruction.endpoint_methods,
               instruction.endpoint_func_name, instruction.kind = "existed")

SeqSet(s) == {s[i] : i \in 1..Len(s)}

\* What is kept of an applied instruction: its kind, the routes it acted on and
\* the attributes it set.  An instruction that leaves every route as it was
\* ("had" with every attribute at Sentinel) is not kept.
Change(routes, instruction) ==
    [kind |-> instruction.kind, routes |-> SeqSet(Targets(routes, instruction)),
     attributes |-> instruction.attributes]

Init ==
    /\ pc = "author"
    /\ latest \in Routers
    /\ never = <<>>
    /\ version = NumVersions + 1
    /\ router = <<>>
    /\ router_infos = <<>>
    /\ applied = NothingApplied
    /\ before_deletion = <<>>
    /\ dirs = <<>>
    /\ sync = {}
    /\ result = NoResult
    /\ raised = ""
    /\ err = NoError
    /\ cache = <<>>
    /\ objects = 1
    /\ rewrites = <<>>
    /\ call = NoCall

\* An exception leaves the program: the locals of transform are gone and
\* nothing is returned.
Fail(exception, e) ==
    /\ pc' = "failed"
    /\ raised' = exception
    /\ err' = e
    /\ router' = <<>>
    /\ router_infos' = <<>>
    /\ applied' = NothingApplied
    /\ before_deletion' = <<>>
    /\ dirs' = <<>>
    /\ result' = NoResult

\* router.only_exists_in_older_versions(endpoint), while the routes are declared
OnlyExistsInOlderVersions(endpoint) ==
    /\ pc = "author"
    /\ LET marked == only_exists_in_older_versions(latest, endpoint)
       IN IF marked.raised # ""
          THEN /\ Fail(marked.raised, NoError)
               /\ UNCHANGED <<latest, never, version, sync>>
          ELSE /\ latest' = marked.routes
               /\ UNCHANGED <<pc, never, version, router, router_infos, applied,
                              before_deletion, dirs, sync, result, raised, err>>

\* generate_versioned_routers: _EndpointTransformer(...) and line 115 of
\* transform.  The latest schemas module must be a package named "latest".
Generate(is_package, is_latest) ==
    /\ pc = "author"
    /\ IF ~is_package
       THEN /\ Fail("RouterGenerationError", Error("not_a_package", {}, "", 0, <<>>))
            /\ UNCHANGED <<latest, never, version, sync>>
       ELSE IF ~is_latest
       THEN /\ Fail("RouterGenerationError", Error("not_named_latest", {}, "", 0, <<>>))
            /\ UNCHANGED <<latest, never, version, sync>>
       ELSE /\ never' = routes_that_never_existed(latest)
            /\ router' = latest
            /\ pc' = "loop"
            /\ UNCHANGED <<latest, version, router_infos, applied, before_deletion,
                           dirs, sync, result, raised, err>>

\* NextVersion with line 133 copying the latest router: the instructions of a
\* version act on the latest routes, not on what newer versions left.
NextVersion_CopiesLatest(is_dir) ==
    /\ pc = "loop"
    /\ version > 1
    /\ LET migrated == migrate_router_to_version(router, version - 1, is_dir)
       IN IF migrated.err # NoError
          THEN /\ Fail("RouterGenerationError", migrated.err)
               /\ UNCHANGED <<latest, never, version, sync>>
          ELSE /\ version' = version - 1
               /\ router_infos' = ((version - 1) :> migrated.routes) @@ router_infos
               /\ router' = MigrateRoutes(latest, 1, version - 1).routes
               /\ dirs' = ((version - 1) :> is_dir) @@ dirs
               /\ UNCHANGED <<pc, latest, never, applied, before_deletion, sync,
                              result, raised, err>>

\* The next round of "for version in self.versions", lines 119-133: the router
\* is migrated to the next older version, recorded as its snapshot and copied.
NextVersion(is_dir) ==
    /\ pc = "loop"
    /\ version > 1
    /\ LET migrated == migrate_router_to_version(router, version - 1, is_dir)
       IN IF migrated.err # NoError
          THEN /\ Fail("RouterGenerationError", migrated.err)
               /\ UNCHANGED <<latest, never, version, sync>>
          ELSE /\ version' = version - 1
               /\ router_infos' = ((version - 1) :> migrated.routes) @@ router_infos
               /\ router' = migrated.routes
               /\ dirs' = ((version - 1) :> is_dir) @@ dirs
               /\ UNCHANGED <<pc, latest, never, applied, before_deletion, sync,
                              result, raised, err>>

\* ApplyInstruction with line 133 left out: the instructions are applied to the
\* router recorded as the version's snapshot, not to a copy of it.
ApplyInstruction_NoDeepcopy(instruction) ==
    /\ pc = "loop"
    /\ version <= NumVersions
    /\ InstrCount < MaxInstr
    /\ WellFormed(instruction)
    /\ LET out == apply_instruction(latest, router, never, instruction, version)
       IN IF out.err # NoError
          THEN /\ Fail("RouterGenerationError", out.err)
               /\ never' = out.never
               /\ UNCHANGED <<latest, version, sync>>
          ELSE /\ router' = out.routes
               /\ router_infos' = [router_infos EXCEPT ![version] = out.routes]
               /\ never' = out.never
               /\ applied' = IF instruction.kind = "had"
                                 /\ instruction.attributes = NoAttributes
                              THEN applied
                              ELSE [applied EXCEPT ![version] =
                                      Append(@, Change(router, instruction))]
               /\ before_deletion' =
                      IF instruction.kind = "didnt_exist"
                      THEN [k \in SeqSet(Targets(router, instruction)) |-> router[k]]
                               @@ before_deletion
                      ELSE before_deletion
               /\ UNCHANGED <<pc, latest, version, dirs, sync, result, raised, err>>

\* Line 134, one instruction of the version's changes applied to the copy.
ApplyInstruction(instruction) ==
    /\ pc = "loop"
    /\ version <= NumVersions
    /\ InstrCount < MaxInstr
    /\ WellFormed(instruction)
    /\ LET out == apply_instruction(latest, router, never, instruction, version)
       IN IF out.err # NoError
          THEN /\ Fail("RouterGenerationError", out.err)
               /\ never' = out.never
               /\ UNCHANGED <<latest, version, sync>>
          ELSE /\ router' = out.routes
               /\ never' = out.never
               /\ applied' = IF instruction.kind = "had"
                                 /\ instruction.attributes = NoAttributes
                              THEN applied
                              ELSE [applied EXCEPT ![version] =
                                      Append(@, Change(router, instruction))]
               /\ before_deletion' =
                      IF instruction.kind = "didnt_exist"
                      THEN [k \in SeqSet(Targets(router, instruction)) |-> router[k]]
                               @@ before_deletion
                      ELSE before_deletion
               /\ UNCHANGED <<pc, latest, version, router_infos, dirs, sync, result,
                              raised, err>>

\* Lines 136-201, once the oldest version is done: the never-restored check,
\* the migration wrappers, the stripping of the deleted routes and the return.
Finish(not_async) ==
    /\ pc = "loop"
    /\ version = 1
    /\ sync' = not_async
    /\ IF never # <<>>
       THEN /\ Fail("RouterGenerationError",
                    [Error("never_restored", {}, "", 0, <<>>) EXCEPT !.routes = never])
            /\ UNCHANGED <<latest, never, version>>
       ELSE IF FirstNotAsync(latest, not_async) # 0
       THEN /\ Fail("RouterGenerationError",
                    Error("not_async", {}, "", 0,
                          <<latest[FirstNotAsync(latest, not_async)].endpoint>>))
            /\ UNCHANGED <<latest, never, version>>
       ELSE /\ router_infos' = add_data_migrations(router_infos)
            /\ result' = strip_deleted(add_data_migrations(router_infos))
            /\ pc' = "done"
            /\ UNCHANGED <<latest, never, version, router, applied, before_deletion,
                           dirs, raised, err>>

\* The handlers of the latest routes.
Handlers == {latest[i].endpoint : i \in 1..Len(latest)}

Next ==
    \/ \E endpoint \in Functions :
          OnlyExistsInOlderVersions(endpoint) /\ UNCHANGED <<annvars, call>>
    \/ \E is_package \in BOOLEAN, is_latest \in BOOLEAN :
          Generate(is_package, is_latest) /\ UNCHANGED <<annvars, call>>
    \/ \E is_dir \in BOOLEAN : NextVersion(is_dir) /\ UNCHANGED <<annvars, call>>
    \/ \E instruction \in Instructions :
          ApplyInstruction(instruction) /\ UNCHANGED <<annvars, call>>
    \/ \E not_async \in SUBSET Handlers : Finish(not_async) /\ UNCHANGED <<annvars, call>>

Spec == Init /\ [][Next]_vars

\* ------------------------------------------- the annotation transformer alone
\* One _AnnotationTransformer and the calls of _change_version_of_annotations
\* made on it: on the annotations of the router and on what earlier calls
\* returned, as migrate_route_to_version does from one snapshot to the next.
Returned == {rewrites[i].out : i \in {j \in 1..Len(rewrites) : ~rewrites[j].raised}}

AnnotationsInit ==
    /\ pc = "annotations"
    /\ latest = <<>>
    /\ never = <<>>
    /\ version = NumVersions + 1
    /\ router = <<>>
    /\ router_infos = <<>>
    /\ applied = NothingApplied
    /\ before_deletion = <<>>
    /\ dirs = <<>>
    /\ sync = {}
    /\ result = NoResult
    /\ raised = ""
    /\ err = NoError
    /\ cache = <<>>
    /\ objects = 1
    /\ rewrites = <<>>
    /\ call = NoCall

ChangeVersionOfAnnotations(annotation, version_dir) ==
    /\ Len(rewrites) < MaxRewrites
    /\ LET r == change_version_of_annotations(annotation, version_dir, cache, objects)
       IN /\ cache' = r.cache
          /\ objects' = r.objects
          /\ rewrites' = Append(rewrites, [ann |-> annotation, dir |-> version_dir,
                                           out |-> r.ann, raised |-> r.raised])
    /\ UNCHANGED <<genvars, call>>

AnnotationsNext ==
    \E annotation \in UserAnnotations \cup Returned, version_dir \in version_dirs :
        ChangeVersionOfAnnotations(annotation, version_dir)

AnnotationTransformer == AnnotationsInit /\ [][AnnotationsNext]_vars

\* ------------------------------------------- a call of a wrapped endpoint
\* The endpoint that versions._versioned returns (lines 567-575), called for a
\* request of version api_version: it walks the versions newer than the
\* request's up to the latest and applies their request migrations, calls the
\* latest handler, then walks the same versions back and applies their
\* response migrations.  request_migrations and response_migrations are the
\* versions that registered a migration for the route; trace records what
\* the call has run.
Event(kind, v) == [kind |-> kind, version |-> v]

\* The oldest version whose migrations a request of api_version goes through.
FirstMigratedVersion_FromCaller(api_version) == api_version

FirstMigratedVersion(api_version) == api_version + 1

VersionedInit ==
    /\ pc = "serving"
    /\ latest = <<>>
    /\ never = <<>>
    /\ version = NumVersions + 1
    /\ router = <<>>
    /\ router_infos = <<>>
    /\ applied = NothingApplied
    /\ before_deletion = <<>>
    /\ dirs = <<>>
    /\ sync = {}
    /\ result = NoResult
    /\ raised = ""
    /\ err = NoError
    /\ cache = <<>>
    /\ objects = 1
    /\ rewrites = <<>>
    /\ \E requests \in SUBSET Versions, responses \in SUBSET Versions :
          call = [NoCall EXCEPT !.stage = "idle", !.request_migrations = requests,
                                !.response_migrations = responses]

\* A request of version api_version reaches the wrapped endpoint.
Request(api_version) ==
    /\ call.stage = "idle"
    /\ call' = [call EXCEPT !.stage = "request", !.api_version = api_version,
                            !.cursor = FirstMigratedVersion(api_version)]
    /\ UNCHANGED <<genvars, annvars>>

\* The next version of the walk up: its request migration, if it has one.
MigrateRequest ==
    /\ call.stage = "request"
    /\ call.cursor <= NumVersions
    /\ call' = [call EXCEPT
                  !.trace = IF call.cursor \in call.request_migrations
                            THEN Append(@, Event("request", call.cursor)) ELSE @,
                  !.cursor = @ + 1]
    /\ UNCHANGED <<genvars, annvars>>

\* The latest handler runs on the migrated body.
CallHandler ==
    /\ call.stage = "request"
    /\ call.cursor > NumVersions
    /\ call' = [call EXCEPT !.stage = "response", !.cursor = NumVersions,
                            !.trace = Append(@, Event("handler", 0))]
    /\ UNCHANGED <<genvars, annvars>>

\* The next version of the walk down: its response migration, if it has one.
MigrateResponse ==
    /\ call.stage = "response"
    /\ call.cursor >= FirstMigratedVersion(call.api_version)
    /\ call' = [call EXCEPT
                  !.trace = IF call.cursor \in call.response_migrations
                            THEN Append(@, Event("response", call.cursor)) ELSE @,
                  !.cursor = @ - 1]
    /\ UNCHANGED <<genvars, annvars>>

\* The response goes back to the caller.
Return ==
    /\ call.stage = "response"
    /\ call.cursor < FirstMigratedVersion(call.api_version)
    /\ call' = [call EXCEPT !.stage = "returned"]
    /\ UNCHANGED <<genvars, annvars>>

VersionedNext ==
    \/ \E api_version \in Versions : Request(api_version)
    \/ MigrateRequest
    \/ CallHandler
    \/ MigrateResponse
    \/ Return

Versioned == VersionedInit /\ [][VersionedNext]_vars

\* ================================================================ properties
\* The changes applied between the snapshot of version hi and the snapshot of
\* version lo - 1, in the order they were applied: those of hi first.
RECURSIVE Between(_, _)
Between(lo, hi) == IF hi < lo THEN <<>> ELSE applied[hi] \o Between(lo, hi - 1)

Touches(changes, kind, k) ==
    \E j \in 1..Len(changes) : changes[j].kind = kind /\ k \in changes[j].routes

\* The kind of the last change that acted on route k, "none" if none did.
RECURSIVE LastKind(_, _)
LastKind(changes, k) ==
    IF changes = <<>> THEN "none"
    ELSE IF k \in changes[Len(changes)].routes THEN changes[Len(changes)].kind
    ELSE LastKind(SubSeq(changes, 1, Len(changes) - 1), k)

\* The last deletion or restoration that acted on route k.
Structural(changes) == SelectSeq(changes, LAMBDA c : c.kind # "had")

RouteIds == 1..Len(latest)
ActiveAt(v, k) == ~IsDeleted(router_infos[v][k])
\* The route at position k of the snapshot of v is in the collection returned for v.
Present(v, k) == \E j \in 1..Len(result[v]) : result[v][j] = router_infos[v][k]

\* C1, as stated: a route active at V2 and deleted by a "didn't exist"
\* instruction between V1 and V2 is absent from V2's collection and present in V1's.
C1_AbsentAtNewerPresentAtOlder ==
    pc = "done" =>
        \A v1 \in Versions, v2 \in Versions, k \in RouteIds :
            (/\ v1 < v2
             /\ ActiveAt(v2, k)
             /\ Touches(Between(v1 + 1, v2), "didnt_exist", k))
            => ~Present(v2, k) /\ Present(v1, k)

\* C1, amended: a route active at V2 and deleted by a "didn't exist" instruction
\* between V1 and V2 is present in V2's collection and, when no "existed"
\* instruction between V1 and V2 acts on it, absent from V1's collection.
C1_PresentAtNewerAbsentAtOlder ==
    pc = "done" =>
        \A v1 \in Versions, v2 \in Versions, k \in RouteIds :
            (/\ v1 < v2
             /\ ActiveAt(v2, k)
             /\ Touches(Between(v1 + 1, v2), "didnt_exist", k))
            => /\ Present(v2, k)
               /\ ~Touches(Between(v1 + 1, v2), "existed", k) => ~Present(v1, k)

\* Generation succeeded with a route deleted by an instruction of a version
\* strictly between two versions that are not neighbours.
C1_Witness ==
    /\ pc = "done"
    /\ \E v1 \in Versions, v2 \in Versions, k \in RouteIds :
          /\ v1 + 1 < v2
          /\ ActiveAt(v2, k)
          /\ Touches(applied[v2 - 1], "didnt_exist", k)
          /\ ~Touches(Between(v1 + 1, v2), "existed", k)
          /\ Present(v2, k)
          /\ ~Present(v1, k)

\* C2, as stated: when a version V carries a "didn't exist" instruction for a
\* route active in V's snapshot and generation succeeds, V's collection has the
\* route and the collection of the next older version does not.
C2_DeletedInNextOlder ==
    pc = "done" =>
        \A v \in Versions, k \in RouteIds :
            (v > 1 /\ ActiveAt(v, k) /\ Touches(applied[v], "didnt_exist", k))
            => Present(v, k) /\ ~Present(v - 1, k)

\* C2, amended: ... and no later "existed" instruction of V restores the route
\* (the last deletion or restoration V applies to it is the deletion).
C2_DeletedInNextOlderUnlessRestored ==
    pc = "done" =>
        \A v \in Versions, k \in RouteIds :
            (/\ v > 1
             /\ ActiveAt(v, k)
             /\ LastKind(Structural(applied[v]), k) = "didnt_exist")
            => Present(v, k) /\ ~Present(v - 1, k)

\* The scenario of the spec: the newest version carries exactly one
\* instruction, a deletion; its collection has the route, the next older has not.
C2_Witness ==
    /\ pc = "done"
    /\ \E k \in RouteIds :
          /\ Len(applied[NumVersions]) = 1
          /\ applied[NumVersions][1].kind = "didnt_exist"
          /\ applied[NumVersions][1].routes = {k}
          /\ Present(NumVersions, k)
          /\ ~Present(NumVersions - 1, k)

\* Everything applied so far, the newest version's changes first.
AllApplied == Between(version, NumVersions)
InLoop == pc = "loop" /\ version <= NumVersions

\* The route matches the instruction's path, methods and (if given) handler name.
Matches(route, i) ==
    /\ route.path = i.endpoint_path
    /\ route.methods \subseteq i.endpoint_methods
    /\ (i.endpoint_func_name = NoName \/ func_name(route.endpoint) = i.endpoint_func_name)
ActiveMatches(i) == {k \in 1..Len(router) : Matches(router[k], i) /\ ~IsDeleted(router[k])}
DeletedMatches(i) == {k \in 1..Len(router) : Matches(router[k], i) /\ IsDeleted(router[k])}
MethodsOf(ks) == UNION {router[k].methods : k \in ks}
\* What applying instruction i to the working snapshot gives.
Applying(i) == apply_instruction(latest, router, never, i, version)
Given == {i \in Instructions : WellFormed(i)}

C4_RedundantHadFails ==
    /\ InLoop =>
          \A i \in Given :
              (/\ i.kind = "had"
               /\ \E k \in ActiveMatches(i), a \in DOMAIN i.attributes :
                     router[k][a] = i.attributes[a])
              => Applying(i).err.kind = "attribute_unchanged"
    /\ err.kind = "attribute_unchanged" => pc = "failed" /\ result = NoResult

C4_Witness ==
    /\ pc = "failed"
    /\ err.kind = "attribute_unchanged"
    /\ err.attr = "status_code"

\* C5: a "didn't exist" instruction matched by a route that already carries the
\* deleted tag makes generation fail with the double-deletion error, which
\* names the methods of those routes, the path and the version change.
C5_DoubleDeletionFails ==
    /\ InLoop =>
          \A i \in Given :
              (i.kind = "didnt_exist" /\ DeletedMatches(i) # {})
              => LET raising == Applying(i).err
                 IN /\ raising.kind = "already_deleted"
                    /\ raising.methods = MethodsOf(DeletedMatches(i))
                    /\ raising.path = i.endpoint_path
                    /\ raising.version_change = version
    /\ err.kind = "already_deleted" => pc = "failed" /\ result = NoResult

\* The double deletion was raised for a version older than the newest one.
C5_Witness ==
    /\ pc = "failed"
    /\ err.kind = "already_deleted"
    /\ err.version_change < NumVersions
    /\ err.methods # {}

\* C6: an "existed" instruction matched by an active route makes generation
\* fail, and it clears the tag of no deleted route.
C6_RestoringActiveFails ==
    /\ InLoop =>
          \A i \in Given :
              (i.kind = "existed" /\ ActiveMatches(i) # {})
              => LET out == Applying(i)
                 IN /\ out.err.kind = "already_existed"
                    /\ \A k \in 1..Len(router) :
                          IsDeleted(router[k]) => IsDeleted(out.routes[k])
                    /\ out.never = never
    /\ err.kind = "already_existed" => pc = "failed" /\ result = NoResult

\* The error was raised while another route matching the instruction was deleted.
C6_Witness ==
    /\ pc = "failed"
    /\ err.kind = "already_existed"
    /\ Len(err.names) = 1
    /\ Len(latest) = 2
    /\ \E k \in RouteIds : IsDeleted(latest[k])

\* C7: generation succeeds only if every route marked in the latest router was
\* restored by an "existed" instruction; the list checked at the end holds
\* exactly the marked routes no instruction restored, and when it is not empty
\* generation fails after the oldest version with an error listing them.
Marked == {k \in RouteIds : IsDeleted(latest[k])}
Restored == {k \in RouteIds : Touches(Between(1, NumVersions), "existed", k)}
C7_MarkedRoutesRestored ==
    /\ pc = "done" => Marked \subseteq Restored
    /\ pc = "loop" => /\ SeqSet(never) = Marked \ Restored
                      /\ Len(never) = Cardinality(SeqSet(never))
    /\ err.kind = "never_restored" =>
          /\ pc = "failed" /\ result = NoResult
          /\ version = 1
          /\ err.routes = never /\ never # <<>>
          /\ SeqSet(never) \subseteq Marked

\* Generation succeeded with a marked route.
C7_Witness == pc = "done" /\ Marked # {}

\* The routes an instruction acts on, the methods it leaves unmatched and the
\* error it must raise for them.
Affected(i) == IF i.kind = "existed" THEN DeletedMatches(i) ELSE ActiveMatches(i)
Unmatched(i) == i.endpoint_methods \ MethodsOf(Affected(i))
UnmatchedKinds == {"delete_unmatched", "restore_unmatched", "change_unmatched"}
ConflictKinds == {"already_deleted", "already_existed", "ambiguous_restore",
                  "never_existed_ambiguous", "attribute_unchanged"}
UnmatchedError(i) ==
    CASE i.kind = "didnt_exist" -> "delete_unmatched"
      [] i.kind = "existed" -> "restore_unmatched"
      [] i.kind = "had" -> "change_unmatched"

\* C8: when the methods an instruction targets are not all methods of the
\* routes it acted on, generation fails; unless a structural conflict was raised
\* first, the error is the one of the instruction's kind and lists exactly the
\* unmatched methods, the path and the version change.  No such error is
\* raised when every method is matched.
C8_UnmatchedMethodsFail ==
    /\ InLoop =>
          \A i \in Given :
              LET raising == Applying(i).err
                  unmatched == Unmatched(i)
              IN /\ unmatched # {} =>
                       raising.kind \in ConflictKinds \cup {UnmatchedError(i)}
                 /\ raising.kind \in UnmatchedKinds =>
                       /\ raising.kind = UnmatchedError(i)
                       /\ raising.methods = unmatched
                       /\ unmatched # {}
                       /\ raising.path = i.endpoint_path
                       /\ raising.version_change = version
    /\ err.kind \in UnmatchedKinds => pc = "failed" /\ result = NoResult /\ err.methods # {}

\* A restoration failed for one method of the two it targeted.
C8_Witness ==
    /\ pc = "failed"
    /\ err.kind = "restore_unmatched"
    /\ err.methods = {"POST"}

\* C9: the collection returned for a version holds no route carrying the
\* deleted tag and holds every other route of the version's snapshot, in the
\* order of the snapshot.
Kept(v) == {k \in 1..Len(router_infos[v]) : ~IsDeleted(router_infos[v][k])}
Rank(v, k) == Cardinality({j \in Kept(v) : j <= k})
C9_StrippedInOrder ==
    pc = "done" =>
        /\ DOMAIN result = Versions
        /\ \A v \in Versions :
              /\ \A j \in 1..Len(result[v]) : ~IsDeleted(result[v][j])
              /\ Len(result[v]) = Cardinality(Kept(v))
              /\ \A k \in Kept(v) : result[v][Rank(v, k)] = router_infos[v][k]

\* One version keeps two different routes, another lost a route to stripping.
C9_Witness ==
    /\ pc = "done"
    /\ \E v \in Versions : Len(result[v]) = 2 /\ result[v][1] # result[v][2]
    /\ \E v \in Versions : Len(result[v]) < Len(router_infos[v])

\* C10: a mapping is returned only by a run in which no fatal condition arose:
\* every version directory existed, every handler is asynchronous, no response
\* model lies in a version directory other than the template, every marked
\* route was restored; the mapping then covers every version.  A run that
\* raised returned nothing.
C10_NoPartialMapping ==
    /\ pc = "failed" => result = NoResult /\ raised # ""
    /\ result # NoResult =>
          /\ pc = "done" /\ raised = "" /\ err = NoError
          /\ DOMAIN result = Versions
          /\ \A v \in Versions : v \in DOMAIN dirs /\ dirs[v]
          /\ \A k \in RouteIds : latest[k].endpoint \notin sync
          /\ \A k \in RouteIds : latest[k].response_model # MisplacedType
          /\ Marked \subseteq Restored

\* A version directory was missing after the snapshots of newer versions had
\* been recorded.
C10_Witness ==
    /\ pc = "failed"
    /\ err.kind = "missing_directory"
    /\ version < NumVersions
    /\ result = NoResult

\* The routes of the latest router whose endpoint is the handler.
RoutesOf(endpoint) == {k \in RouteIds : latest[k].endpoint = endpoint}

\* C11: marking a handler raises LookupError when no registered route has the
\* handler as its endpoint and CadwynError when the handler's route (the first
\* registered one) already carries the deleted tag, leaving every route as it
\* was; otherwise that route, and no other, gains the tag.  A run that raised
\* either error generated nothing.
C11_MarkerRaisesOrMarksOne ==
    /\ pc = "author" =>
          \A endpoint \in Functions :
              LET marked == only_exists_in_older_versions(latest, endpoint)
                  own == RoutesOf(endpoint)
              IN /\ own = {} => marked.raised = "LookupError" /\ marked.routes = latest
                 /\ own # {} /\ IsDeleted(latest[SetMin(own)]) =>
                       marked.raised = "CadwynError" /\ marked.routes = latest
                 /\ own # {} /\ ~IsDeleted(latest[SetMin(own)]) =>
                       /\ marked.raised = ""
                       /\ Len(marked.routes) = Len(latest)
                       /\ \A k \in RouteIds :
                             IF k = SetMin(own)
                             THEN marked.routes[k] =
                                    [latest[k] EXCEPT !.tags = Append(@, DELETED_ROUTE_TAG)]
                             ELSE marked.routes[k] = latest[k]
    /\ raised \in {"LookupError", "CadwynError"} => pc = "failed" /\ result = NoResult

\* The handler of a route of a two-route router was marked, and marking it a
\* second time raised.
C11_Witness ==
    /\ pc = "failed"
    /\ raised = "CadwynError"
    /\ Len(latest) = 2
    /\ Cardinality({k \in RouteIds : IsDeleted(latest[k])}) = 1

\* C12: no step of the loop of transform that leaves it running - an
\* instruction of version V applied to the working router, or the router
\* migrated and recorded for the next older version - changes a route of a
\* snapshot already recorded, that of V included.
C12_SnapshotsIsolated ==
    [][(pc = "loop" /\ pc' = "loop") =>
          \A v \in DOMAIN router_infos :
              v \in DOMAIN router_infos' /\ router_infos'[v] = router_infos[v]]_vars

\* Instructions of the current version have changed the working router, which
\* now differs from the snapshot recorded for that version, and snapshots of
\* newer versions are recorded too.
C12_Witness ==
    /\ pc = "loop"
    /\ version < NumVersions
    /\ Len(applied[version]) >= 2
    /\ \E k \in RouteIds :
          /\ IsDeleted(router[k]) # IsDeleted(router_infos[version][k])
          /\ router[k].status_code # router_infos[version][k].status_code

\* What of a route says which endpoint it is: everything but what instructions,
\* the migration to a version directory and the wrapping write.
Identity(route) ==
    [route EXCEPT !.tags = <<>>, !.status_code = 200,
                  !.response_model = LatestType, !.versioned = FALSE]

\* C13: until the stripping, the working router and every recorded snapshot
\* have as many routes as the latest router, and the route at each index is
\* the one of the latest router at that index.
C13_PositionsCorrespond ==
    /\ pc = "loop" =>
          /\ Len(router) = Len(latest)
          /\ \A k \in RouteIds : Identity(router[k]) = Identity(latest[k])
    /\ pc \in {"loop", "done"} =>
          \A v \in DOMAIN router_infos :
              /\ Len(router_infos[v]) = Len(latest)
              /\ \A k \in RouteIds :
                    Identity(router_infos[v][k]) = Identity(latest[k])

\* Generation succeeded on two different routes, one deleted in some snapshot
\* where the other is not, and one with a changed attribute.
C13_Witness ==
    /\ pc = "done"
    /\ Len(latest) = 2
    /\ Identity(latest[1]) # Identity(latest[2])
    /\ \E v \in Versions :
          IsDeleted(router_infos[v][1]) # IsDeleted(router_infos[v][2])
    /\ \E v \in Versions, k \in RouteIds : router_infos[v][k].status_code = 204

\* C14: rewriting what a rewriting returned, to the same directory, returns
\* it again: change(change(a, D), D) = change(a, D), for every annotation.
C14_RewritingIdempotent ==
    \A i \in 1..Len(rewrites), j \in 1..Len(rewrites) :
        (/\ i < j
         /\ ~rewrites[i].raised
         /\ rewrites[j].ann = rewrites[i].out
         /\ rewrites[j].dir = rewrites[i].dir)
        => ~rewrites[j].raised /\ rewrites[j].out = rewrites[i].out

\* An annotation with what a call returned for it, and the same for the
\* annotations nested in it at the same places.
RECURSIVE Occurrences(_, _)
Occurrences(annotation, out) ==
    {<<annotation, out>>}
        \cup UNION { Occurrences(annotation.parts[k], out.parts[k]) :
                       k \in 1..Len(annotation.parts) }

\* The occurrences rewritten to version_dir by the calls followed.
RewrittenTo(version_dir) ==
    UNION { Occurrences(rewrites[i].ann, rewrites[i].out) :
              i \in {j \in 1..Len(rewrites) :
                        ~rewrites[j].raised /\ rewrites[j].dir = version_dir} }

\* C15: two occurrences of the same annotation - a schema type, or a callable,
\* generic, union or dependency that mentions one - rewritten to the same
\* version directory give the same object, be they the argument of two calls
\* or nested in a container, and the cache holds that object for the pair.
C15_OneObjectPerAnnotationAndDir ==
    \A version_dir \in version_dirs :
        \A p \in RewrittenTo(version_dir), q \in RewrittenTo(version_dir) :
            (p[1] = q[1] /\ p[1].kind # "list")
            => /\ p[2] = q[2]
               /\ <<p[1], version_dir>> \in DOMAIN cache
               /\ cache[<<p[1], version_dir>>] = p[2]

\* The handler was rewritten on its own and as an item of a list, to the same
\* directory, and so was the schema type its annotations mention.
C15_Witness ==
    \E i \in 1..Len(rewrites), j \in 1..Len(rewrites) :
        /\ i # j
        /\ rewrites[i].ann = Handler
        /\ rewrites[j].ann.kind = "list"
        /\ rewrites[i].dir = rewrites[j].dir
        /\ ~rewrites[i].raised /\ ~rewrites[j].raised
        /\ rewrites[j].out.parts[2] = rewrites[i].out
        /\ rewrites[i].out.id # Handler.id
        /\ rewrites[j].out.parts[1] = rewrites[i].out.parts[1]
        /\ rewrites[j].out.parts[1].cls.dir = rewrites[i].dir

\* C16: a schema type whose source file lies in the directory tree that holds
\* the version directories, but not in the template directory, raises when it
\* is rewritten to latest_version_dir - wherever in that tree the file lies.
C16_OutsideTemplateRaises ==
    \A i \in 1..Len(rewrites) :
        (/\ rewrites[i].ann.kind = "type"
         /\ rewrites[i].dir = latest_version_dir
         /\ InDirWithVersions(rewrites[i].ann.cls)
         /\ ~InDir(rewrites[i].ann.cls, template_version_dir))
        => rewrites[i].raised

\* C17: for every query, the locator returns the positions of the working
\* router's routes, in increasing order and each once, whose path is the
\* query's, whose methods are all among the query's, whose deleted state is the
\* one asked for and, when a handler name is given, whose handler has that
\* name; it returns no other.
C17_LocatorExact ==
    InLoop =>
        \A path \in Paths, methods \in MethodSets,
           name \in {NoName} \cup Names, is_deleted \in BOOLEAN :
            LET found == get_routes(router, path, methods, name, is_deleted)
            IN /\ \A a \in 1..Len(found), b \in 1..Len(found) :
                     a < b => found[a] < found[b]
               /\ \A k \in 1..Len(router) :
                     (\E a \in 1..Len(found) : found[a] = k)
                     <=> /\ router[k].path = path
                         /\ \A m \in router[k].methods : m \in methods
                         /\ IsDeleted(router[k]) = is_deleted
                         /\ name # NoName => func_name(router[k].endpoint) = name

\* A working router of two routes on one path, one of them deleted: a query
\* for the deleted ones finds the one, a query naming the other's handler finds
\* the other, and a query for the active routes of the deleted one's handler
\* finds none.
C17_Witness ==
    /\ InLoop
    /\ Len(router) = 2
    /\ router[1].path = router[2].path
    /\ func_name(router[1].endpoint) # func_name(router[2].endpoint)
    /\ IsDeleted(router[1]) /\ ~IsDeleted(router[2])
    /\ get_routes(router, router[1].path, {"GET", "POST"}, NoName, TRUE) = <<1>>
    /\ get_routes(router, router[1].path, {"GET", "POST"},
                  func_name(router[2].endpoint), FALSE) = <<2>>
    /\ get_routes(router, router[1].path, {"GET", "POST"},
                  func_name(router[1].endpoint), FALSE) = <<>>

\* Two of the deleted routes the instruction matches have the same path and
\* the same set of methods.
SharePathAndMethods(i) ==
    \E k \in DeletedMatches(i), l \in DeletedMatches(i) :
        k # l /\ router[k].path = router[l].path /\ router[k].methods = router[l].methods

\* The working router with the tag taken off the deleted routes i matches.
AllRestored(i) ==
    [k \in 1..Len(router) |->
        IF k \in DeletedMatches(i)
        THEN [router[k] EXCEPT !.tags = ListRemove(@, DELETED_ROUTE_TAG)]
        ELSE router[k]]

\* C18, as stated: an "existed" instruction matching two deleted routes of the
\* same path and methods fails with the ambiguous-restore error and restores
\* none; one whose matched deleted routes all differ restores every one.
C18_AmbiguousRestoreFails ==
    InLoop =>
        \A i \in Given :
            i.kind = "existed" =>
                LET out == Applying(i)
                IN /\ SharePathAndMethods(i) =>
                         out.err.kind = "ambiguous_restore" /\ out.routes = router
                   /\ (~SharePathAndMethods(i) /\ DeletedMatches(i) # {}) =>
                         out.routes = AllRestored(i)

\* C18, amended: the same of an "existed" instruction that no active route
\* matches; and every matched deleted route is restored unless the restoring
\* itself raises, for several older-only routes of one path and function name.
C18_AmbiguousRestoreFailsUnlessActive ==
    /\ InLoop =>
          \A i \in Given :
              (i.kind = "existed" /\ ActiveMatches(i) = {}) =>
                  LET out == Applying(i)
                  IN /\ SharePathAndMethods(i) =>
                           /\ out.err.kind = "ambiguous_restore"
                           /\ out.routes = router
                           /\ out.never = never
                     /\ (/\ ~SharePathAndMethods(i)
                         /\ DeletedMatches(i) # {}
                         /\ out.err.kind # "never_existed_ambiguous") =>
                           /\ out.routes = AllRestored(i)
                           /\ \A k \in DeletedMatches(i) : ~IsDeleted(out.routes[k])
    /\ err.kind = "ambiguous_restore" =>
          pc = "failed" /\ result = NoResult /\ Len(err.names) = 2

\* The ambiguous-restore error was raised, naming two handlers.
C18_Witness ==
    /\ pc = "failed"
    /\ err.kind = "ambiguous_restore"
    /\ Len(err.names) = 2
    /\ err.names[1] # err.names[2]

\* C19: generation succeeds only if no route of the latest router has a
\* handler that is not asynchronous, marked routes included: once the loop
\* over the versions is over and every marked route was restored, any choice
\* of non-asynchronous handlers among the latest routes' is refused, at the
\* first such route, and a run that raised this error returned nothing.
C19_NotAsyncFails ==
    /\ pc = "done" => \A k \in RouteIds : latest[k].endpoint \notin sync
    /\ (pc = "loop" /\ version = 1) =>
          \A not_async \in SUBSET Handlers :
              LET first == FirstNotAsync(latest, not_async)
              IN IF not_async = {} THEN first = 0
                 ELSE /\ first \in RouteIds
                      /\ latest[first].endpoint \in not_async
                      /\ \A k \in 1..(first - 1) : latest[k].endpoint \notin not_async
    /\ err.kind = "not_async" =>
          /\ pc = "failed" /\ result = NoResult /\ never = <<>>
          /\ err.names = <<latest[FirstNotAsync(latest, sync)].endpoint>>
          /\ err.names[1] \in sync

\* Generation failed on the handler of a route marked as existing only in
\* older versions, the only handler that is not asynchronous.
C19_Witness ==
    /\ pc = "failed"
    /\ err.kind = "not_async"
    /\ Len(latest) = 2
    /\ Cardinality(sync) = 1
    /\ \E k \in RouteIds : IsDeleted(latest[k]) /\ latest[k].endpoint \in sync
    /\ \E k \in RouteIds : latest[k].endpoint \notin sync

\* The events of a kind in the trace of the call, and where the handler ran.
EventsOf(kind) == {k \in 1..Len(call.trace) : call.trace[k].kind = kind}
Newer(registered) == {v \in registered : v > call.api_version}

\* C20: a returned call for a request of version Vc ran, first, the request
\* migrations of exactly the versions newer than Vc that registered one, oldest
\* first; then the handler, once; then the response migrations of exactly the
\* versions newer than Vc that registered one, newest first.  At no moment has
\* the call run the handler twice or a migration of Vc or of an older version.
C20_MigrationsInOrder ==
    /\ Cardinality(EventsOf("handler")) <= 1
    /\ \A k \in 1..Len(call.trace) :
          call.trace[k].kind # "handler" => call.trace[k].version > call.api_version
    /\ call.stage = "returned" =>
          /\ Cardinality(EventsOf("handler")) = 1
          /\ \A a \in EventsOf("request"), h \in EventsOf("handler"),
                b \in EventsOf("response") : a < h /\ h < b
          /\ {call.trace[k].version : k \in EventsOf("request")}
                = Newer(call.request_migrations)
          /\ {call.trace[k].version : k \in EventsOf("response")}
                = Newer(call.response_migrations)
          /\ \A a \in EventsOf("request"), b \in EventsOf("request") :
                a < b => call.trace[a].version < call.trace[b].version
          /\ \A a \in EventsOf("response"), b \in EventsOf("response") :
                a < b => call.trace[a].version > call.trace[b].version

\* A returned call for the oldest version, with a migration registered at
\* that version and at every newer one, for requests and for responses.
C20_Witness ==
    /\ call.stage = "returned"
    /\ call.api_version = 1
    /\ call.request_migrations = Versions
    /\ call.response_migrations = Versions
    /\ Len(call.trace) = 2 * (NumVersions - 1) + 1

\* The last deletion or restoration, and the "had" instructions, that versions
\* newer than v applied to route k: what separates the snapshot of v from the
\* latest router.
LastStructural(v, k) == LastKind(Structural(Between(v + 1, NumVersions)), k)
HadsOn(v, k) ==
    SelectSeq(Between(v + 1, NumVersions),
              LAMBDA c : c.kind = "had" /\ k \in c.routes
                           /\ "status_code" \in DOMAIN c.attributes)
StatusCodeAt(v, k) ==
    IF HadsOn(v, k) = <<>> THEN latest[k].status_code
    ELSE HadsOn(v, k)[Len(HadsOn(v, k))].attributes["status_code"]

\* C21: in what generation returns, whether a route is in the collection of a
\* version v is decided by the last deletion or restoration among the
\* instructions of the versions newer than v, walking from the newest: absent
\* after a deletion, present after a restoration, and as the latest router has
\* it (present unless marked) when there is none; and the route's status code
\* in the snapshot and the collection of v is the one set by the last "had"
\* instruction of a newer version that acted on it, the latest one if none did.
C21_EffectsAccumulate ==
    pc = "done" =>
        \A v \in Versions, k \in RouteIds :
            /\ LastStructural(v, k) = "didnt_exist" => ~Present(v, k)
            /\ LastStructural(v, k) = "existed" => Present(v, k)
            /\ LastStructural(v, k) = "none" => (Present(v, k) <=> ~IsDeleted(latest[k]))
            /\ router_infos[v][k].status_code = StatusCodeAt(v, k)
            /\ k \in Kept(v) => result[v][Rank(v, k)].status_code = StatusCodeAt(v, k)

\* A route was changed and then deleted by the newest version and restored by
\* the next older: it is in the newest collection with the latest status code,
\* not in the next, and in the one after that with the changed status code.
C21_Witness ==
    /\ pc = "done"
    /\ \E k \in RouteIds :
          /\ Touches(applied[NumVersions], "had", k)
          /\ Touches(applied[NumVersions], "didnt_exist", k)
          /\ Touches(applied[NumVersions - 1], "existed", k)
          /\ Present(NumVersions, k)
          /\ router_infos[NumVersions][k].status_code = 200
          /\ ~Present(NumVersions - 1, k)
          /\ Present(NumVersions - 2, k)
          /\ router_infos[NumVersions - 2][k].status_code = 204

\* The route with the attributes the instruction names set to its values.
WithAttributes(route, i) ==
    [a \in DOMAIN route |-> IF a \in DOMAIN i.attributes THEN i.attributes[a] ELSE route[a]]

\* C22: a "had" instruction that is applied without error leaves the working
\* router with, at each active route matching its path, methods and handler
\* name, the attributes it names set to its values and every other attribute
\* as it was, and with every other route - deleted, or not matching - as it
\* was; each attribute it names had another value before; the list of the
\* routes still to restore is as it was.
C22_HadChangesNamedAttributesOnly ==
    InLoop =>
        \A i \in Given :
            (i.kind = "had" /\ Applying(i).err = NoError) =>
                LET out == Applying(i)
                IN /\ Len(out.routes) = Len(router)
                   /\ \A k \in 1..Len(router) :
                         IF k \in ActiveMatches(i)
                         THEN /\ out.routes[k] = WithAttributes(router[k], i)
                              /\ \A a \in DOMAIN i.attributes :
                                    /\ out.routes[k][a] = i.attributes[a]
                                    /\ router[k][a] # i.attributes[a]
                         ELSE out.routes[k] = router[k]
                   /\ out.never = never

\* The working router after a "had" instruction acted on its second route
\* alone: the first route, of the same path and handler name and with methods
\* among the second's, is deleted and kept its status code.
C22_Witness ==
    /\ InLoop
    /\ Len(router) = 2
    /\ \E j \in 1..Len(applied[version]) :
          applied[version][j].kind = "had" /\ applied[version][j].routes = {2}
    /\ router[1].path = router[2].path
    /\ router[1].methods \subseteq router[2].methods
    /\ func_name(router[1].endpoint) = func_name(router[2].endpoint)
    /\ IsDeleted(router[1]) /\ ~IsDeleted(router[2])
    /\ router[1].status_code = 200
    /\ router[2].status_code = 204

\* Route k of the working router is active and route l, of the same path and
\* methods and of another handler name, is deleted.
Twins(k, l) ==
    /\ k # l
    /\ router[k].path = router[l].path
    /\ router[k].methods = router[l].methods
    /\ func_name(router[k].endpoint) # func_name(router[l].endpoint)
    /\ ~IsDeleted(router[k])
    /\ IsDeleted(router[l])

\* C23: with an active route and a deleted route of the same path and methods
\* and of different handler names, the "didn't exist" instruction for that
\* path and those methods that names the active route's handler raises nothing
\* and tags the active route, leaving the deleted one as it was (no deleted
\* route having that handler name); the same instruction without a handler
\* name raises the double-deletion error.
C23_FuncNameDisambiguatesDeletion ==
    InLoop =>
        \A i \in Given, k \in 1..Len(router), l \in 1..Len(router) :
            (/\ i.kind = "didnt_exist"
             /\ Twins(k, l)
             /\ i.endpoint_path = router[k].path
             /\ i.endpoint_methods = router[k].methods)
            => LET out == Applying(i)
               IN /\ (/\ i.endpoint_func_name = func_name(router[k].endpoint)
                      /\ DeletedMatches(i) = {})
                     => /\ out.err = NoError
                        /\ IsDeleted(out.routes[k])
                        /\ out.routes[l] = router[l]
                  /\ i.endpoint_func_name = NoName
                     => /\ out.err.kind = "already_deleted"
                        /\ out.routes = router

\* An instruction of a version deleted the first route alone while the second,
\* of the same path and methods and of another handler name, was deleted
\* already in the snapshot recorded for that version.
C23_Witness ==
    /\ InLoop
    /\ Len(router) = 2
    /\ router[1].path = router[2].path
    /\ router[1].methods = router[2].methods
    /\ func_name(router[1].endpoint) # func_name(router[2].endpoint)
    /\ ~IsDeleted(router_infos[version][1])
    /\ IsDeleted(router_infos[version][2])
    /\ \E j \in 1..Len(applied[version]) :
          applied[version][j].kind = "didnt_exist" /\ applied[version][j].routes = {1}
    /\ IsDeleted(router[1]) /\ IsDeleted(router[2])

\* C24: when generation succeeds, every route marked in the latest router
\* as existing only in older versions is in the collection returned for at
\* least one version, whichever version carries the instruction restoring it.
C24_MarkedRoutesPresentSomewhere ==
    pc = "done" => \A k \in Marked : \E v \in Versions : Present(v, k)

\* The latest routes that are not marked as existing only in older versions.
Unmarked == SelectSeq(latest, LAMBDA route : ~IsDeleted(route))

\* A latest route as the collection of version v holds it when no instruction
\* reached it: annotations rewritten to the directory of v, endpoint wrapped.
AsServedAt(route, v) ==
    [route EXCEPT !.response_model = get_another_version_of_cls(@, v),
                  !.versioned = TRUE]

\* C25, as stated: the collection returned for the newest version is the
\* sequence of the unmarked latest routes, each with the attributes it has in
\* the latest router.
C25_NewestIsLatest ==
    pc = "done" => result[NumVersions] = Unmarked

\* C25, amended: the collection returned for the newest version, and for any
\* version that no newer version carries an instruction for, is the sequence of
\* the unmarked latest routes, each as the latest router has it but for the
\* response model, which is the schema of the version's directory, and for the
\* endpoint, which is wrapped - whatever instructions the version itself and
\* the older ones carry.
C25_NewestIsLatestRewritten ==
    pc = "done" =>
        \A v \in Versions :
            Between(v + 1, NumVersions) = <<>> =>
                /\ Len(result[v]) = Len(Unmarked)
                /\ \A j \in 1..Len(Unmarked) : result[v][j] = AsServedAt(Unmarked[j], v)

\* Generation succeeded on two unmarked routes with the newest version
\* deleting the first and changing the status code of the second: the newest
\* collection has both, the next older has the second alone, changed.
C25_Witness ==
    /\ pc = "done"
    /\ Len(latest) = 2
    /\ Marked = {}
    /\ Touches(applied[NumVersions], "didnt_exist", 1)
    /\ Touches(applied[NumVersions], "had", 2)
    /\ Len(result[NumVersions]) = 2
    /\ result[NumVersions][2].status_code = 200
    /\ Len(result[NumVersions - 1]) = 1
    /\ result[NumVersions - 1][1].status_code = 204

\* How many times the route's tags hold the deleted tag.
MarkerCount(route) == Len(SelectSeq(route.tags, LAMBDA tag : tag = DELETED_ROUTE_TAG))

\* C26: in the latest router, in the working router and in every recorded
\* snapshot, whatever the marker method and the instructions applied so far
\* did, no route holds the deleted tag more than once; and an "existed"
\* instruction applied without error leaves every deleted route it matched
\* without the tag.
C26_MarkerAtMostOnce ==
    /\ \A k \in 1..Len(latest) : MarkerCount(latest[k]) <= 1
    /\ \A k \in 1..Len(router) : MarkerCount(router[k]) <= 1
    /\ \A v \in DOMAIN router_infos :
          \A k \in 1..Len(router_infos[v]) : MarkerCount(router_infos[v][k]) <= 1
    /\ InLoop =>
          \A i \in Given :
              (i.kind = "existed" /\ Applying(i).err = NoError) =>
                  \A k \in DeletedMatches(i) : MarkerCount(Applying(i).routes[k]) = 0

\* A route marked in the latest router was restored by an instruction and
\* deleted again by a later one: the working router has it deleted.
C26_Witness ==
    /\ InLoop
    /\ \E k \in Marked :
          /\ Touches(AllApplied, "existed", k)
          /\ LastKind(AllApplied, k) = "didnt_exist"
          /\ MarkerCount(router[k]) = 1

====
